---- MODULE Spec2Model ----
(***************************************************************************)
(* Model of pebble_says.c: the round/input state machine of the "Pebble    *)
(* Says" memory game, its four tracked timer handles, the untracked        *)
(* acknowledgment timer, and the Pebble timer service the game runs on.    *)
(*                                                                         *)
(* The C statics are the variables below, under their C names.  Every C    *)
(* function is an operator from a state record to a state record, so that  *)
(* a handler that calls other functions is the composition of their        *)
(* operators, exactly as in the source; an action applies one complete     *)
(* event handler (a button click handler, a timer callback, the window     *)
(* unload handler) to the current state.                                   *)
(***************************************************************************)
EXTENDS Integers, Sequences, FiniteSets, TLC

(* ---- program constants ------------------------------------------------ *)

MAX_SEQUENCE == 8
SHOW_MS == 700
PAUSE_MS == 300

SEQ_BTN_UP == 0
SEQ_BTN_SELECT == 1
SEQ_BTN_DOWN == 2

\* rand() % 3
NUM_BUTTONS == 3
\* delay of the glyph feedback timer registered by handle_input
FEEDBACK_MS == 150
\* delay of the "Good" acknowledgment timer registered by handle_input
GOOD_MS == 200
\* flash tick interval on PBL_PLATFORM_CHALK and on every other platform
FLASH_MS_CHALK == 180
FLASH_MS_OTHER == 140
\* initial value of s_flash_interval_ms
FLASH_MS_INIT == 150
\* NULL timer handle
NULL == 0

(* ---- bounds of the model ---------------------------------------------- *)

\* Button events are at least PressGap ms apart, and a button event may come
\* PressGap ms after the previous event, besides coming at the instant a
\* timer expires.
PressGap == 100

\* The values rand() % 3 yields within one game repeat with this period.
RandPeriod == 3

\* The same, in the games of PerfectPlaySpec.
PlayPeriod == 2

Buttons == 0 .. (NUM_BUTTONS - 1)

VARIABLES
  s_sequence,          \* the cells s_sequence[0 .. s_seq_len-1], as a sequence
  s_seq_len,
  s_input_index,
  s_showing,
  s_show_index,
  s_show_phase,
  s_sequence_timer,    \* the four handle slots: a timer id, or NULL
  s_feedback_timer,
  s_transition_timer,
  s_flash_timer,
  s_game_over,
  s_round,
  s_transitioning,
  s_show_ms_current,
  s_flash_phase,
  s_flash_interval_ms,
  text,                \* text of s_text_layer, set by show_message
  glyphs,              \* the set of glyph layers drawn highlighted
  timers,              \* timer service: the registered, not yet fired timers
  chalk,               \* whether the build defines PBL_PLATFORM_CHALK
  vibes,               \* haptic pulses emitted by the last event handler
  cues,                \* playback cues presented since start_show_sequence
  stale_cancel,        \* app_timer_cancel was called on a timer not pending
  stale_read,          \* s_sequence[i] was read at an index i >= s_seq_len
  window               \* "loaded" until prv_window_unload has run

vars == << s_sequence, s_seq_len, s_input_index, s_showing, s_show_index,
           s_show_phase, s_sequence_timer, s_feedback_timer,
           s_transition_timer, s_flash_timer, s_game_over, s_round,
           s_transitioning, s_show_ms_current, s_flash_phase,
           s_flash_interval_ms, text, glyphs, timers, chalk, vibes, cues,
           stale_cancel, stale_read, window >>

\* The current state as a record, the argument of the C functions below.
State ==
  [ sequence |-> s_sequence, seq_len |-> s_seq_len,
    input_index |-> s_input_index, showing |-> s_showing,
    show_index |-> s_show_index, show_phase |-> s_show_phase,
    sequence_timer |-> s_sequence_timer, feedback_timer |-> s_feedback_timer,
    transition_timer |-> s_transition_timer, flash_timer |-> s_flash_timer,
    game_over |-> s_game_over, round |-> s_round,
    transitioning |-> s_transitioning, show_ms_current |-> s_show_ms_current,
    flash_phase |-> s_flash_phase, flash_interval_ms |-> s_flash_interval_ms,
    text |-> text, glyphs |-> glyphs, timers |-> timers, chalk |-> chalk,
    vibes |-> vibes, cues |-> cues, stale_cancel |-> stale_cancel,
    stale_read |-> stale_read, window |-> window ]

\* The next state is the record s.
Becomes(s) ==
  /\ s_sequence' = s.sequence
  /\ s_seq_len' = s.seq_len
  /\ s_input_index' = s.input_index
  /\ s_showing' = s.showing
  /\ s_show_index' = s.show_index
  /\ s_show_phase' = s.show_phase
  /\ s_sequence_timer' = s.sequence_timer
  /\ s_feedback_timer' = s.feedback_timer
  /\ s_transition_timer' = s.transition_timer
  /\ s_flash_timer' = s.flash_timer
  /\ s_game_over' = s.game_over
  /\ s_round' = s.round
  /\ s_transitioning' = s.transitioning
  /\ s_show_ms_current' = s.show_ms_current
  /\ s_flash_phase' = s.flash_phase
  /\ s_flash_interval_ms' = s.flash_interval_ms
  /\ text' = s.text
  /\ glyphs' = s.glyphs
  /\ timers' = s.timers
  /\ chalk' = s.chalk
  /\ vibes' = s.vibes
  /\ cues' = s.cues
  /\ stale_cancel' = s.stale_cancel
  /\ stale_read' = s.stale_read
  /\ window' = s.window

\* The current state is the record s.
Is(s) ==
  /\ s_sequence = s.sequence
  /\ s_seq_len = s.seq_len
  /\ s_input_index = s.input_index
  /\ s_showing = s.showing
  /\ s_show_index = s.show_index
  /\ s_show_phase = s.show_phase
  /\ s_sequence_timer = s.sequence_timer
  /\ s_feedback_timer = s.feedback_timer
  /\ s_transition_timer = s.transition_timer
  /\ s_flash_timer = s.flash_timer
  /\ s_game_over = s.game_over
  /\ s_round = s.round
  /\ s_transitioning = s.transitioning
  /\ s_show_ms_current = s.show_ms_current
  /\ s_flash_phase = s.flash_phase
  /\ s_flash_interval_ms = s.flash_interval_ms
  /\ text = s.text
  /\ glyphs = s.glyphs
  /\ timers = s.timers
  /\ chalk = s.chalk
  /\ vibes = s.vibes
  /\ cues = s.cues
  /\ stale_cancel = s.stale_cancel
  /\ stale_read = s.stale_read
  /\ window = s.window

(* ---- the timer service (app_timer_register, app_timer_cancel) --------- *)

TimerIds(s) == { t.id : t \in s.timers }

\* The handle app_timer_register returns: one that names no pending timer and
\* that no handle slot still holds.
NewTimer(s) ==
  LET used == TimerIds(s) \cup { s.sequence_timer, s.feedback_timer,
                                 s.transition_timer, s.flash_timer }
  IN  CHOOSE i \in 1 .. (Cardinality(used) + 1) :
        /\ i \notin used
        /\ \A j \in 1 .. (i - 1) : j \in used

app_timer_register(s, ms, cb, data) ==
  [ s EXCEPT !.timers = @ \cup { [ id |-> NewTimer(s), cb |-> cb,
                                   data |-> data, rem |-> ms ] } ]

\* Cancelling a pending timer removes it; cancelling a handle whose timer has
\* fired or was cancelled changes no timer (the SDK logs a warning).
app_timer_cancel(s, h) ==
  [ s EXCEPT !.timers = { t \in @ : t.id # h },
             !.stale_cancel = @ \/ (h \notin TimerIds(s)) ]

(* ---- presentation and haptics ----------------------------------------- *)

button_name(b) ==
  CASE b = SEQ_BTN_UP -> "Up"
    [] b = SEQ_BTN_SELECT -> "Select"
    [] b = SEQ_BTN_DOWN -> "Down"
    [] OTHER -> "?"

show_message(s, msg) == [ s EXCEPT !.text = msg ]

highlight_glyph(s, idx, on) ==
  IF idx < 0 \/ idx > 2 THEN s
  ELSE IF on THEN [ s EXCEPT !.glyphs = @ \cup { idx } ]
  ELSE [ s EXCEPT !.glyphs = @ \ { idx } ]

vibes_short_pulse(s) == [ s EXCEPT !.vibes = Append(@, "short") ]
vibes_double_pulse(s) == [ s EXCEPT !.vibes = Append(@, "double") ]
vibes_long_pulse(s) == [ s EXCEPT !.vibes = Append(@, "long") ]

\* snprintf(buf, sizeof(buf), "Length %d", n)
LengthBanner(n) == "Length " \o ToString(n)

(* ---- the game ---------------------------------------------------------- *)

\* s_sequence[i], for a C index i
Step(s, i) == s.sequence[i + 1]

\* The state after the code has read s_sequence[i]: a read outside
\* s_sequence[0 .. s_seq_len-1] is recorded.
read_sequence(s, i) ==
  [ s EXCEPT !.stale_read = @ \/ i < 0 \/ i >= s.seq_len ]

\* add_random_step storing the new step in cell 0, ahead of the old steps
add_random_step_prepend(s, r) ==
  IF s.seq_len < MAX_SEQUENCE
  THEN [ s EXCEPT !.sequence = << r >> \o SubSeq(@, 1, s.seq_len),
                  !.seq_len = @ + 1 ]
  ELSE s

add_random_step(s, r) ==
  IF s.seq_len < MAX_SEQUENCE
  THEN [ s EXCEPT !.sequence = Append(SubSeq(@, 1, s.seq_len), r),
                  !.seq_len = @ + 1 ]
  ELSE s

\* calc_show_ms with the third segment starting from len - 2
calc_show_ms_late_segment(len) ==
  LET ms == IF len <= 1 THEN SHOW_MS
            ELSE IF len <= 3 THEN SHOW_MS - 60 * (len - 1)
            ELSE SHOW_MS - 60 * 2 - 35 * (len - 2)
  IN  IF ms < 200 THEN 200 ELSE ms

calc_show_ms(len) ==
  LET ms == IF len <= 1 THEN SHOW_MS
            ELSE IF len <= 3 THEN SHOW_MS - 60 * (len - 1)
            ELSE SHOW_MS - 60 * 2 - 35 * (len - 3)
  IN  IF ms < 200 THEN 200 ELSE ms

schedule_sequence_timer(s, ms) ==
  LET s1 == IF s.sequence_timer # NULL
            THEN app_timer_cancel(s, s.sequence_timer) ELSE s
      s2 == app_timer_register(s1, ms, "sequence_timer_callback", 0)
  IN  [ s2 EXCEPT !.sequence_timer = NewTimer(s1) ]

\* sequence_timer_callback, lines 175-203: after the handle is cleared.
sequence_timer_tick(s) ==
  IF ~ s.showing THEN s
  ELSE IF s.show_index >= s.seq_len
  THEN show_message([ s EXCEPT !.showing = FALSE, !.glyphs = {} ],
                    "Your turn")
  ELSE IF s.show_phase = 0
  THEN LET step == Step(s, s.show_index)
           s0 == read_sequence(s, s.show_index)
           s1 == highlight_glyph(show_message(s0, button_name(step)),
                                 step, TRUE)
           s2 == [ s1 EXCEPT !.show_phase = 1,
                             !.cues = Append(@, << "Display", step >>) ]
       IN  schedule_sequence_timer(s2, s2.show_ms_current)
  ELSE LET prev_step == Step(s, s.show_index)
           s0 == read_sequence(s, s.show_index)
           s1 == highlight_glyph(show_message(s0, ""), prev_step, FALSE)
           s2 == [ s1 EXCEPT !.show_phase = 0,
                             !.show_index = @ + 1,
                             !.cues = Append(@, << "Pause", prev_step >>) ]
       IN  schedule_sequence_timer(s2, PAUSE_MS)

\* sequence_timer_callback without "s_sequence_timer = NULL"
sequence_timer_callback_keeps_handle(s) == sequence_timer_tick(s)

sequence_timer_callback(s) ==
  sequence_timer_tick([ s EXCEPT !.sequence_timer = NULL ])

\* start_show_sequence with "s_show_index = 1"
start_show_sequence_from_one(s) ==
  sequence_timer_callback(
    [ s EXCEPT !.showing = TRUE, !.show_index = 1, !.show_phase = 0,
               !.transitioning = FALSE, !.sequence_timer = NULL,
               !.cues = << >> ])

start_show_sequence(s) ==
  sequence_timer_callback(
    [ s EXCEPT !.showing = TRUE, !.show_index = 0, !.show_phase = 0,
               !.transitioning = FALSE, !.sequence_timer = NULL,
               !.cues = << >> ])

begin_round(s) ==
  start_show_sequence(
    [ s EXCEPT !.input_index = 0, !.show_index = 0, !.show_phase = 0,
               !.showing = TRUE, !.game_over = FALSE,
               !.transitioning = FALSE, !.round = s.seq_len,
               !.show_ms_current = calc_show_ms(s.seq_len) ])

\* end_game without "s_game_over = true"
end_game_not_over(s) ==
  LET s1 == [ s EXCEPT !.showing = FALSE ]
      s2 == IF s1.sequence_timer # NULL
            THEN [ app_timer_cancel(s1, s1.sequence_timer)
                     EXCEPT !.sequence_timer = NULL ]
            ELSE s1
  IN  show_message(s2, "Game Over")

end_game(s) ==
  LET s1 == [ s EXCEPT !.game_over = TRUE, !.showing = FALSE ]
      s2 == IF s1.sequence_timer # NULL
            THEN [ app_timer_cancel(s1, s1.sequence_timer)
                     EXCEPT !.sequence_timer = NULL ]
            ELSE s1
  IN  show_message(s2, "Game Over")

\* clear_feedback_callback that also rewinds the input cursor
clear_feedback_callback_rewinds(s) ==
  show_message([ s EXCEPT !.input_index = 0 ], "Your turn")

clear_feedback_callback(s) == show_message(s, "Your turn")

clear_glyph_callback(s, idx) ==
  [ highlight_glyph(s, idx, FALSE) EXCEPT !.feedback_timer = NULL ]

start_flash_animation(s, cycles) ==
  LET s1 == [ s EXCEPT !.flash_phase = 0,
                       !.flash_interval_ms =
                          IF s.chalk THEN FLASH_MS_CHALK ELSE FLASH_MS_OTHER ]
      s2 == IF s1.flash_timer # NULL
            THEN app_timer_cancel(s1, s1.flash_timer) ELSE s1
      s3 == app_timer_register(s2, s2.flash_interval_ms,
                               "flash_animation_tick", cycles)
  IN  [ s3 EXCEPT !.flash_timer = NewTimer(s2) ]

flash_animation_tick(s, cycles) ==
  LET s1 == [ s EXCEPT !.flash_phase = @ + 1 ]
  IN  IF s1.flash_phase >= cycles
      THEN [ s1 EXCEPT !.flash_timer = NULL ]
      ELSE [ app_timer_register(s1, s1.flash_interval_ms,
                                "flash_animation_tick", cycles)
               EXCEPT !.flash_timer = NewTimer(s1) ]

FlashCycles(len) ==
  IF len = 4 \/ len = 6 THEN 5 ELSE IF len = 8 THEN 7 ELSE 3

\* start_round_transition with the milestone pulse at length 4 only
start_round_transition_one_milestone(s) ==
  LET s1 == vibes_double_pulse(
              [ s EXCEPT !.transitioning = TRUE, !.showing = FALSE ])
      s2 == IF s1.seq_len = 4 THEN vibes_short_pulse(s1)
            ELSE IF s1.seq_len = 8 THEN vibes_long_pulse(s1)
            ELSE s1
      s3 == show_message(s2, LengthBanner(s2.seq_len))
      cycles == FlashCycles(s3.seq_len)
      s4 == start_flash_animation(s3, cycles)
      s5 == IF s4.transition_timer # NULL
            THEN app_timer_cancel(s4, s4.transition_timer) ELSE s4
      duration == 150 * cycles + 200
      s6 == app_timer_register(s5, duration, "round_transition_callback", 0)
  IN  [ s6 EXCEPT !.transition_timer = NewTimer(s5) ]

start_round_transition(s) ==
  LET s1 == vibes_double_pulse(
              [ s EXCEPT !.transitioning = TRUE, !.showing = FALSE ])
      s2 == IF s1.seq_len = 4 \/ s1.seq_len = 6 THEN vibes_short_pulse(s1)
            ELSE IF s1.seq_len = 8 THEN vibes_long_pulse(s1)
            ELSE s1
      s3 == show_message(s2, LengthBanner(s2.seq_len))
      cycles == FlashCycles(s3.seq_len)
      s4 == start_flash_animation(s3, cycles)
      s5 == IF s4.transition_timer # NULL
            THEN app_timer_cancel(s4, s4.transition_timer) ELSE s4
      duration == 150 * cycles + 200
      s6 == app_timer_register(s5, duration, "round_transition_callback", 0)
  IN  [ s6 EXCEPT !.transition_timer = NewTimer(s5) ]

\* round_transition_callback without the flash shutdown (lines 294-298)
round_transition_callback_keeps_flash(s) ==
  begin_round([ s EXCEPT !.transition_timer = NULL ])

round_transition_callback(s) ==
  LET s1 == [ s EXCEPT !.transition_timer = NULL ]
      s2 == IF s1.flash_timer # NULL
            THEN [ app_timer_cancel(s1, s1.flash_timer)
                     EXCEPT !.flash_timer = NULL ]
            ELSE s1
  IN  begin_round([ s2 EXCEPT !.flash_phase = 0 ])

\* handle_input, lines 339-354: the round is complete.  r is the value
\* rand() % 3 yields when add_random_step calls it.
handle_input_completed_gt(s, r) ==
  IF s.seq_len > MAX_SEQUENCE
  THEN show_message([ s EXCEPT !.game_over = TRUE ], "You win!")
  ELSE LET s1 == add_random_step(s, r)
       IN  start_round_transition([ s1 EXCEPT !.round = s1.seq_len ])

\* handle_input_completed without "s_game_over = true" in the win branch
handle_input_completed_win_not_over(s, r) ==
  IF s.seq_len >= MAX_SEQUENCE
  THEN show_message(s, "You win!")
  ELSE LET s1 == add_random_step(s, r)
       IN  start_round_transition([ s1 EXCEPT !.round = s1.seq_len ])

\* handle_input_completed without "s_round = s_seq_len"
handle_input_completed_stale_round(s, r) ==
  IF s.seq_len >= MAX_SEQUENCE
  THEN show_message([ s EXCEPT !.game_over = TRUE ], "You win!")
  ELSE start_round_transition(add_random_step(s, r))

handle_input_completed(s, r) ==
  IF s.seq_len >= MAX_SEQUENCE
  THEN show_message([ s EXCEPT !.game_over = TRUE ], "You win!")
  ELSE LET s1 == add_random_step(s, r)
       IN  start_round_transition([ s1 EXCEPT !.round = s1.seq_len ])

\* handle_input_correct with "s_input_index += 2"
handle_input_correct_skips(s, r) ==
  LET s1 == [ vibes_short_pulse(s) EXCEPT !.input_index = @ + 2 ]
  IN  IF s1.input_index = s1.seq_len
      THEN handle_input_completed(s1, r)
      ELSE app_timer_register(show_message(s1, "Good"), GOOD_MS,
                              "clear_feedback_callback", 0)

\* handle_input, lines 334-360: the press is correct.
handle_input_correct(s, r) ==
  LET s1 == [ vibes_short_pulse(s) EXCEPT !.input_index = @ + 1 ]
  IN  IF s1.input_index = s1.seq_len
      THEN handle_input_completed(s1, r)
      ELSE app_timer_register(show_message(s1, "Good"), GOOD_MS,
                              "clear_feedback_callback", 0)

\* handle_input, lines 325-331: the visual feedback of an accepted press.
handle_input_feedback(s, pressed) ==
  LET s1 == highlight_glyph(s, pressed, TRUE)
      s2 == IF s1.feedback_timer # NULL
            THEN [ app_timer_cancel(s1, s1.feedback_timer)
                     EXCEPT !.feedback_timer = NULL ]
            ELSE s1
  IN  [ app_timer_register(s2, FEEDBACK_MS, "clear_glyph_callback", pressed)
          EXCEPT !.feedback_timer = NewTimer(s2) ]

\* handle_input, lines 323-366: the press passed the guards.
handle_input_judge(s, pressed, r) ==
  LET s1 == read_sequence(handle_input_feedback(s, pressed), s.input_index)
  IN  IF pressed = Step(s1, s1.input_index)
      THEN handle_input_correct(s1, r)
      ELSE end_game(vibes_long_pulse(s1))

\* handle_input without the s_transitioning guard
handle_input_no_transition_guard(s, pressed, r) ==
  IF s.showing THEN s
  ELSE IF s.game_over THEN s
  ELSE IF s.input_index >= s.seq_len THEN s
  ELSE handle_input_judge(s, pressed, r)

\* handle_input without the s_game_over guard
handle_input_no_game_over_guard(s, pressed, r) ==
  IF s.showing THEN s
  ELSE IF s.transitioning THEN s
  ELSE IF s.input_index >= s.seq_len THEN s
  ELSE handle_input_judge(s, pressed, r)

handle_input(s, pressed, r) ==
  IF s.showing THEN s
  ELSE IF s.transitioning THEN s
  ELSE IF s.game_over THEN s
  ELSE IF s.input_index >= s.seq_len THEN s
  ELSE handle_input_judge(s, pressed, r)

\* prv_select_click_handler without "s_seq_len = 0"
prv_select_click_handler_no_reset(s, r) ==
  IF s.game_over
  THEN begin_round(add_random_step([ s EXCEPT !.round = 0 ], r))
  ELSE handle_input(s, SEQ_BTN_SELECT, r)

prv_select_click_handler(s, r) ==
  IF s.game_over
  THEN begin_round(add_random_step([ s EXCEPT !.seq_len = 0, !.round = 0 ], r))
  ELSE handle_input(s, SEQ_BTN_SELECT, r)

prv_up_click_handler(s, r) == handle_input(s, SEQ_BTN_UP, r)

prv_down_click_handler(s, r) == handle_input(s, SEQ_BTN_DOWN, r)

prv_window_unload(s) ==
  LET s1 == IF s.sequence_timer # NULL
            THEN [ app_timer_cancel(s, s.sequence_timer)
                     EXCEPT !.sequence_timer = NULL ]
            ELSE s
      s2 == IF s1.feedback_timer # NULL
            THEN [ app_timer_cancel(s1, s1.feedback_timer)
                     EXCEPT !.feedback_timer = NULL ]
            ELSE s1
      s3 == IF s2.transition_timer # NULL
            THEN [ app_timer_cancel(s2, s2.transition_timer)
                     EXCEPT !.transition_timer = NULL ]
            ELSE s2
      s4 == IF s3.flash_timer # NULL
            THEN [ app_timer_cancel(s3, s3.flash_timer)
                     EXCEPT !.flash_timer = NULL ]
            ELSE s3
  IN  [ s4 EXCEPT !.window = "unloaded" ]

(* ---- initial state: the statics' initialisers, prv_window_load, prv_init *)

prv_init(build_chalk) ==
  [ sequence |-> << >>, seq_len |-> 0, input_index |-> 0, showing |-> FALSE,
    show_index |-> 0, show_phase |-> 0, sequence_timer |-> NULL,
    feedback_timer |-> NULL, transition_timer |-> NULL, flash_timer |-> NULL,
    game_over |-> TRUE, round |-> 0, transitioning |-> FALSE,
    show_ms_current |-> SHOW_MS, flash_phase |-> 0,
    flash_interval_ms |-> FLASH_MS_INIT, text |-> "Press Select",
    glyphs |-> {}, timers |-> {}, chalk |-> build_chalk, vibes |-> << >>,
    cues |-> << >>, stale_cancel |-> FALSE, stale_read |-> FALSE,
    window |-> "loaded" ]

\* The build is for PBL_PLATFORM_CHALK or for another platform.
Init == \E build_chalk \in BOOLEAN : \E s \in { prv_init(build_chalk) } : Is(s)

(* ---- events ------------------------------------------------------------ *)

\* The sequences a random source of the given period can produce.
Periodic(seq, period) ==
  \A i \in (period + 1) .. Len(seq) : seq[i] = seq[i - period]

\* The sequences the bounded random source can produce.
RandBounded(seq) == Periodic(seq, RandPeriod)

\* A button event may be delivered: the window is up, and the last accepted
\* press (the one that registered the pending glyph feedback timer, if any)
\* is at least PressGap ms old.
CanPress ==
  /\ window = "loaded"
  /\ \A t \in timers :
       t.cb = "clear_glyph_callback" => t.rem <= FEEDBACK_MS - PressGap

\* The state an event handler starts from: the pulses of the previous
\* handler are over.
Entry == [ State EXCEPT !.vibes = << >> ]

PressSelect ==
  /\ CanPress
  /\ \E r \in Buttons :
     \E s \in { prv_select_click_handler(Entry, r) } :
       /\ RandBounded(s.sequence)
       /\ Becomes(s)

PressUp ==
  /\ CanPress
  /\ \E r \in Buttons :
     \E s \in { prv_up_click_handler(Entry, r) } :
       /\ RandBounded(s.sequence)
       /\ Becomes(s)

PressDown ==
  /\ CanPress
  /\ \E r \in Buttons :
     \E s \in { prv_down_click_handler(Entry, r) } :
       /\ RandBounded(s.sequence)
       /\ Becomes(s)

\* The callback of timer t, applied to the state s in which t is no longer
\* registered.
Callback(s, t) ==
  CASE t.cb = "sequence_timer_callback" -> sequence_timer_callback(s)
    [] t.cb = "clear_glyph_callback" -> clear_glyph_callback(s, t.data)
    [] t.cb = "clear_feedback_callback" -> clear_feedback_callback(s)
    [] t.cb = "round_transition_callback" -> round_transition_callback(s)
    [] t.cb = "flash_animation_tick" -> flash_animation_tick(s, t.data)

\* The event loop delivers an expired timer.
Fire ==
  /\ window = "loaded"
  /\ \E t \in timers :
       /\ t.rem = 0
       /\ \E s \in { Callback([ Entry EXCEPT !.timers = @ \ { t } ], t) } :
            Becomes(s)

\* A press changes the state only when input is accepted or the game is over.
PressMatters == ~ s_showing /\ ~ s_transitioning

\* Time passes: up to the next expiry, or by one of the shorter delays in gaps.
AdvanceBy(gaps) ==
  /\ window = "loaded"
  /\ timers # {}
  /\ \A t \in timers : t.rem > 0
  /\ \E d \in { t.rem : t \in timers } \cup gaps :
       /\ \A t \in timers : t.rem >= d
       /\ \E s \in { [ Entry EXCEPT
                       !.timers = { [ t EXCEPT !.rem = @ - d ] : t \in @ } ] } :
            Becomes(s)

\* Time passes, to the next expiry, or by PressGap ms to the instant of a
\* button event.
Advance == AdvanceBy(IF PressMatters THEN { PressGap } ELSE {})

\* Time passes to the next expiry.
Elapse == AdvanceBy({})

\* The window is popped and the app exits.
Unload ==
  /\ window = "loaded"
  /\ \E s \in { prv_window_unload(Entry) } : Becomes(s)

Next == PressSelect \/ PressUp \/ PressDown \/ Fire \/ Advance \/ Unload

Spec == Init /\ [][Next]_vars

(* ---- vocabulary of the properties -------------------------------------- *)

\* Input is accepted: handle_input passes its three flag guards.
Accepting == ~ s_showing /\ ~ s_transitioning /\ ~ s_game_over

\* The click handler of button b runs.
Press(b) ==
  CASE b = SEQ_BTN_UP -> PressUp
    [] b = SEQ_BTN_SELECT -> PressSelect
    [] b = SEQ_BTN_DOWN -> PressDown

\* The pending timers that run callback cb.
Pending(cb) == { t \in timers : t.cb = cb }

(* ---- C1 ----------------------------------------------------------------- *)

\* C1: in a state where input is accepted, pressing a button other than
\* s_sequence[s_input_index] sets s_game_over, clears s_showing, shows
\* "Game Over" and leaves no sequence timer pending, at every input cursor
\* and every length.
C1_WrongPressEndsGame ==
  [][ \A b \in Buttons :
        ( /\ Accepting
          /\ s_input_index < s_seq_len
          /\ b # s_sequence[s_input_index + 1]
          /\ Press(b) )
        => ( /\ s_game_over'
             /\ ~ s_showing'
             /\ text' = "Game Over"
             /\ s_sequence_timer' = NULL
             /\ \A t \in timers' : t.cb # "sequence_timer_callback"
             /\ vibes' = << "long" >> ) ]_vars

\* A wrong press at the last step of a round of MAX_SEQUENCE steps has ended
\* the game.
C1_Witness ==
  /\ s_game_over
  /\ text = "Game Over"
  /\ vibes = << "long" >>
  /\ s_seq_len = MAX_SEQUENCE
  /\ s_input_index = MAX_SEQUENCE - 1

(* ---- C2 ----------------------------------------------------------------- *)

\* C2: at length MAX_SEQUENCE the correct press of the last step sets
\* s_game_over and shows "You win!"; no step is appended and no round
\* transition starts (s_transitioning stays false, no transition or flash
\* timer is armed).
C2_WinAtMaxLength ==
  [][ \A b \in Buttons :
        ( /\ Accepting
          /\ s_seq_len = MAX_SEQUENCE
          /\ s_input_index = MAX_SEQUENCE - 1
          /\ b = s_sequence[s_input_index + 1]
          /\ Press(b) )
        => ( /\ s_game_over'
             /\ text' = "You win!"
             /\ s_seq_len' = MAX_SEQUENCE
             /\ s_sequence' = s_sequence
             /\ s_input_index' = MAX_SEQUENCE
             /\ ~ s_transitioning'
             /\ s_transition_timer' = NULL
             /\ s_flash_timer' = NULL
             /\ \A t \in timers' :
                  /\ t.cb # "round_transition_callback"
                  /\ t.cb # "flash_animation_tick" ) ]_vars

\* The last press of a round of MAX_SEQUENCE steps has won the game.
C2_Witness ==
  /\ s_game_over
  /\ text = "You win!"
  /\ vibes = << "short" >>
  /\ s_seq_len = MAX_SEQUENCE
  /\ s_input_index = MAX_SEQUENCE

(* ---- C3 ----------------------------------------------------------------- *)

\* A player who presses the correct button at every step: any button while
\* presses are ignored or the game is over, the expected one otherwise.
PlayerPress ==
  \E b \in Buttons :
    /\ (Accepting /\ s_input_index < s_seq_len)
         => b = s_sequence[s_input_index + 1]
    /\ Press(b)
    /\ Periodic(s_sequence', PlayPeriod)

PerfectNext == PlayerPress \/ Fire \/ Elapse

\* The game under that player, who presses at the instants timers expire; the
\* event loop delivers every expired timer, and time passes.
PerfectPlaySpec ==
  Init /\ [][PerfectNext]_vars /\ WF_vars(Fire) /\ WF_vars(Elapse)

\* The milestone pulse of a round transition to length len.
MilestonePulse(len) ==
  IF len = 4 \/ len = 6 THEN << "short" >>
  ELSE IF len = 8 THEN << "long" >>
  ELSE << >>

\* Playback of a round of length len has just begun: step 0 is displayed.
RoundStarted(len) ==
  /\ s_showing /\ ~ s_transitioning /\ ~ s_game_over
  /\ s_seq_len = len /\ s_round = len
  /\ s_show_index = 0 /\ s_input_index = 0
  /\ cues = << << "Display", s_sequence[1] >> >>

\* The press that completes a round of length L < MAX_SEQUENCE.
CompletesRound(b) ==
  /\ Accepting
  /\ s_seq_len < MAX_SEQUENCE
  /\ s_input_index = s_seq_len - 1
  /\ b = s_sequence[s_input_index + 1]
  /\ Press(b)

\* C3: for L < MAX_SEQUENCE the correct press of the last step appends one
\* step (length L+1, the old steps kept), emits the short pulse of a correct
\* press, a double pulse, and the milestone pulse of L+1 (short at 4 and 6,
\* long at 8, none otherwise) and makes the new length the round number;
\* the transition keeps the length and is left only into the start of playback
\* of that round, with step 0 displayed; and, expired timers being delivered,
\* every transition is eventually left.
C3_RoundCompletion ==
  /\ [][ \A b \in Buttons :
           CompletesRound(b)
           => ( /\ s_seq_len' = s_seq_len + 1
                /\ SubSeq(s_sequence', 1, s_seq_len) = s_sequence
                /\ s_round' = s_seq_len + 1
                /\ s_transitioning' /\ ~ s_showing' /\ ~ s_game_over'
                /\ vibes' = << "short", "double" >>
                               \o MilestonePulse(s_seq_len + 1) ) ]_vars
  /\ [][ s_transitioning
           => ( /\ s_seq_len' = s_seq_len
                /\ (s_transitioning' \/ RoundStarted(s_seq_len)') ) ]_vars
  /\ s_transitioning ~> ~ s_transitioning

\* Round 8 has begun, after the transition that emitted the long milestone
\* pulse.
C3_Witness == RoundStarted(MAX_SEQUENCE)

(* ---- C4 ----------------------------------------------------------------- *)

RECURSIVE CuePairs(_, _)
\* The (Display, Pause) cue pairs of the steps seq[1 .. n], in order.
CuePairs(seq, n) ==
  IF n = 0 THEN << >>
  ELSE CuePairs(seq, n - 1)
         \o << << "Display", seq[n] >>, << "Pause", seq[n] >> >>

\* The cues presented when the playback cursor is i (a C index) in phase ph.
CuesAt(seq, i, ph) ==
  IF ph = 0 THEN CuePairs(seq, i)
  ELSE CuePairs(seq, i) \o << << "Display", seq[i + 1] >> >>

\* C4: during playback of a round of length L the cues presented so far are
\* the Display/Pause pairs of s_sequence[0], s_sequence[1], ... in index
\* order up to the show cursor, none skipped or repeated; the showing state
\* is left only with exactly L pairs presented, and then "Your turn" is
\* shown; button presses during playback do not change this.
C4_PlaybackInOrder ==
  /\ [](s_showing =>
          /\ s_show_index <= s_seq_len
          /\ s_show_index = s_seq_len => s_show_phase = 0
          /\ cues = CuesAt(s_sequence, s_show_index, s_show_phase))
  /\ [](Accepting => cues = CuePairs(s_sequence, s_seq_len))
  /\ [][ (s_showing /\ ~ s_showing')
           => ( /\ cues' = CuePairs(s_sequence, s_seq_len)
                /\ Len(cues') = 2 * s_seq_len
                /\ text' = "Your turn"
                /\ Accepting' ) ]_vars

\* Playback of a round of MAX_SEQUENCE steps has ended with all its pairs.
C4_Witness ==
  /\ Accepting
  /\ s_seq_len = MAX_SEQUENCE
  /\ s_input_index = 0
  /\ text = "Your turn"
  /\ Len(cues) = 2 * MAX_SEQUENCE

(* ---- C5 ----------------------------------------------------------------- *)

\* Playback of step 0 of a round has started: its cue is up and the sequence
\* timer runs for ms milliseconds.
StepZeroShown(ms) ==
  /\ s_showing /\ s_show_index = 0 /\ s_show_phase = 1
  /\ cues = << << "Display", s_sequence[1] >> >>
  /\ text = button_name(s_sequence[1])
  /\ s_sequence[1] \in glyphs
  /\ s_sequence_timer # NULL
  /\ \E t \in timers :
       /\ t.id = s_sequence_timer
       /\ t.cb = "sequence_timer_callback"
       /\ t.rem = ms

\* C5: after initialisation the length is 0, the round is 0 and s_game_over
\* is true; SELECT pressed in any game-over state yields length 1, round 1,
\* s_game_over false, s_showing true, both cursors 0, and playback of step 0
\* already started.
C5_SelectStartsGame ==
  /\ << s_seq_len, s_round, s_game_over >> = << 0, 0, TRUE >>
  /\ [][ (s_game_over /\ PressSelect)
           => ( /\ s_seq_len' = 1 /\ Len(s_sequence') = 1
                /\ s_round' = 1
                /\ ~ s_game_over' /\ ~ s_transitioning'
                /\ s_input_index' = 0
                /\ StepZeroShown(SHOW_MS)' ) ]_vars

\* A game restarted by SELECT after an earlier game that had reached a round
\* transition (which set the flash interval).
C5_Witness ==
  /\ s_seq_len = 1 /\ s_round = 1 /\ ~ s_game_over
  /\ StepZeroShown(SHOW_MS)
  /\ s_flash_interval_ms # FLASH_MS_INIT

(* ---- C6 ----------------------------------------------------------------- *)

\* Everything but the pulses of the last handler.
session ==
  << s_sequence, s_seq_len, s_input_index, s_showing, s_show_index,
     s_show_phase, s_sequence_timer, s_feedback_timer, s_transition_timer,
     s_flash_timer, s_game_over, s_round, s_transitioning, s_show_ms_current,
     s_flash_phase, s_flash_interval_ms, text, glyphs, timers, chalk, cues,
     stale_cancel, stale_read, window >>

\* C6: UP or DOWN pressed while showing, transitioning or game-over, and
\* SELECT pressed while showing or transitioning, change nothing: sequence,
\* length, cursors, phase, round, flags, message, highlights, handle slots
\* and pending timers stay as they are, and no pulse is emitted.
C6_IgnoredPressChangesNothing ==
  [][ ( \/ /\ (s_showing \/ s_transitioning \/ s_game_over)
            /\ (PressUp \/ PressDown)
        \/ /\ (s_showing \/ s_transitioning)
            /\ PressSelect )
      => (UNCHANGED session /\ vibes' = << >>) ]_vars

\* A button event can be delivered during a round transition while the
\* feedback, flash and transition timers are pending and a glyph is
\* highlighted.
C6_Witness ==
  /\ CanPress
  /\ s_transitioning
  /\ s_feedback_timer # NULL /\ s_flash_timer # NULL
  /\ s_transition_timer # NULL
  /\ glyphs # {}
  /\ Pending("clear_feedback_callback") # {}

(* ---- C7 ----------------------------------------------------------------- *)

\* The three-segment formula of the show duration, floored at 200 ms.
ShowDuration(L) ==
  LET ms == CASE L <= 1 -> 700
              [] L >= 2 /\ L <= 3 -> 700 - 60 * (L - 1)
              [] L >= 4 -> 700 - 120 - 35 * (L - 3)
  IN  IF ms < 200 THEN 200 ELSE ms

\* C7: calc_show_ms(L) is the piecewise formula for every L in 1..8; it is
\* 700, 580, 545 and 405 at L = 1, 3, 4, 8, non-increasing in L and never
\* below 200; and it is the duration every round's playback runs with.
C7_ShowDuration ==
  /\ \A L \in 1 .. MAX_SEQUENCE :
       /\ calc_show_ms(L) = ShowDuration(L)
       /\ calc_show_ms(L) >= 200
       /\ L > 1 => calc_show_ms(L) <= calc_show_ms(L - 1)
  /\ calc_show_ms(1) = 700 /\ calc_show_ms(3) = 580
  /\ calc_show_ms(4) = 545 /\ calc_show_ms(8) = 405
  /\ s_showing => s_show_ms_current = ShowDuration(s_seq_len)

\* The playback of a round of MAX_SEQUENCE steps runs with 405 ms.
C7_Witness ==
  /\ s_showing
  /\ s_seq_len = MAX_SEQUENCE
  /\ s_show_ms_current = 405
  /\ \E t \in Pending("sequence_timer_callback") : t.rem = 405

(* ---- C8 ----------------------------------------------------------------- *)

\* The handle slot of the category of callback cb.
SlotOf(cb) ==
  CASE cb = "sequence_timer_callback" -> s_sequence_timer
    [] cb = "clear_glyph_callback" -> s_feedback_timer
    [] cb = "round_transition_callback" -> s_transition_timer
    [] cb = "flash_animation_tick" -> s_flash_timer
    [] OTHER -> NULL

\* C8: every pending timer is the one its category's handle slot refers to,
\* so at most one timer of each category and at most four in all are
\* pending.
C8_TimersTracked ==
  /\ \A t \in timers : t.id = SlotOf(t.cb)
  /\ Cardinality(timers) <= 4

(* ---- C9 ----------------------------------------------------------------- *)

\* C9: after prv_window_unload no timer the game registered is pending.
C9_NoTimerAfterUnload == window = "unloaded" => timers = {}

(* ---- C10 ---------------------------------------------------------------- *)

\* The slot is NULL or refers to a pending timer of its category.
SlotLive(slot, cb) ==
  slot # NULL => \E t \in timers : t.id = slot /\ t.cb = cb

\* C10: app_timer_cancel is never called on a timer that has fired or was
\* cancelled: between events every non-null handle slot refers to a pending
\* timer of its category.
C10_NoStaleCancel ==
  /\ ~ stale_cancel
  /\ SlotLive(s_sequence_timer, "sequence_timer_callback")
  /\ SlotLive(s_feedback_timer, "clear_glyph_callback")
  /\ SlotLive(s_transition_timer, "round_transition_callback")
  /\ SlotLive(s_flash_timer, "flash_animation_tick")

\* handle_input has cancelled a pending feedback timer and armed a new one:
\* the feedback timer is fresh while an acknowledgment timer of the press
\* before is PressGap ms old.
C10_Witness ==
  /\ ~ stale_cancel
  /\ \E f \in Pending("clear_glyph_callback") :
       f.id = s_feedback_timer /\ f.rem = FEEDBACK_MS
  /\ \E a \in Pending("clear_feedback_callback") :
       a.rem = GOOD_MS - PressGap

(* ---- C11 ---------------------------------------------------------------- *)

\* C11: the highlight of every accepted press is cleared by the feedback timer
\* 150 ms after the press: outside playback every highlighted glyph is the
\* glyph of a pending feedback timer, so that none stays highlighted with no
\* timer left to clear it (while the window is up).
C11_PressHighlightCleared ==
  (window = "loaded" /\ ~ s_showing)
    => \A g \in glyphs :
         \E t \in Pending("clear_glyph_callback") :
           /\ t.data = g
           /\ t.id = s_feedback_timer
           /\ t.rem <= FEEDBACK_MS

(* ---- C12 ---------------------------------------------------------------- *)

\* C12: 0 <= s_input_index <= s_seq_len <= MAX_SEQUENCE; while showing,
\* 0 <= s_show_index <= s_seq_len, and s_show_index < s_seq_len whenever the
\* next tick reads s_sequence[s_show_index] (the Display phase); no read of
\* s_sequence[s_input_index] or s_sequence[s_show_index] was made at an index
\* outside 0 .. s_seq_len-1.
C12_IndexBounds ==
  /\ 0 <= s_input_index /\ s_input_index <= s_seq_len
  /\ s_seq_len <= MAX_SEQUENCE
  /\ Len(s_sequence) = s_seq_len
  /\ s_showing => (0 <= s_show_index /\ s_show_index <= s_seq_len)
  /\ (s_showing /\ s_show_phase = 1) => s_show_index < s_seq_len
  /\ ~ stale_read

\* The last step of a round of MAX_SEQUENCE steps is displayed, and will be
\* read again by the pause tick.
C12_Witness ==
  /\ s_showing /\ s_show_phase = 1
  /\ s_seq_len = MAX_SEQUENCE
  /\ s_show_index = MAX_SEQUENCE - 1
  /\ cues[Len(cues)] = << "Display", s_sequence[MAX_SEQUENCE] >>

(* ---- C13 ---------------------------------------------------------------- *)

\* The flags, the sequence, the cursors and the round number.
progress ==
  << s_game_over, s_showing, s_transitioning, s_seq_len, s_sequence,
     s_input_index, s_show_index, s_round >>

\* C13: while s_game_over is true, no timer callback, no passing of time and
\* no UP or DOWN press changes the flags, the length, the sequence, the
\* cursors or the round number; and no timer that could start a round is
\* pending: the only timers left are glyph feedback and acknowledgment timers.
C13_GameOverTerminal ==
  /\ [][ (s_game_over /\ (Fire \/ Advance \/ PressUp \/ PressDown))
           => UNCHANGED progress ]_vars
  /\ [](s_game_over =>
          /\ s_sequence_timer = NULL
          /\ s_transition_timer = NULL
          /\ s_flash_timer = NULL
          /\ \A t \in timers :
               t.cb \in { "clear_glyph_callback", "clear_feedback_callback" })

\* The game was won at length MAX_SEQUENCE, and afterwards the acknowledgment
\* timer of the press before the last has fired.
C13_Witness ==
  /\ s_game_over
  /\ s_seq_len = MAX_SEQUENCE
  /\ s_input_index = MAX_SEQUENCE
  /\ text = "Your turn"

(* ---- C14 ---------------------------------------------------------------- *)

\* The flash cycles of the transition into a round of length len.
TransitionCycles(len) ==
  CASE len = 4 \/ len = 6 -> 5
    [] len = 8 -> 7
    [] OTHER -> 3

\* C14: the press that completes a round sets s_transitioning, clears
\* s_showing and arms the transition timer for 150*cycles+200 ms; while the
\* window is up, s_transitioning holds exactly while that timer is pending,
\* with s_showing and s_game_over false, and every button press is ignored;
\* the transition is left only by that timer firing, which leaves no flash
\* timer, flash phase 0, and the new round begun: s_showing, both cursors 0,
\* the length kept and made the round number.
C14_TransitionBlocksInput ==
  /\ [][ \A b \in Buttons :
           CompletesRound(b)
           => ( /\ s_transitioning' /\ ~ s_showing'
                /\ \E t \in timers' :
                     /\ t.id = s_transition_timer'
                     /\ t.cb = "round_transition_callback"
                     /\ t.rem = 150 * TransitionCycles(s_seq_len') + 200 ) ]_vars
  /\ [](window = "loaded" =>
          (s_transitioning <=> Pending("round_transition_callback") # {}))
  /\ [](s_transitioning => (~ s_showing /\ ~ s_game_over))
  /\ [][ (s_transitioning /\ (PressUp \/ PressSelect \/ PressDown))
           => UNCHANGED session ]_vars
  /\ [][ (s_transitioning /\ ~ s_transitioning')
           => ( /\ \E t \in Pending("round_transition_callback") :
                     t.rem = 0 /\ t \notin timers'
                /\ Pending("flash_animation_tick")' = {}
                /\ s_flash_timer' = NULL
                /\ s_flash_phase' = 0
                /\ s_showing' /\ ~ s_game_over'
                /\ s_input_index' = 0 /\ s_show_index' = 0
                /\ s_seq_len' = s_seq_len
                /\ s_round' = s_seq_len ) ]_vars

\* On the PBL_PLATFORM_CHALK build the transition into round MAX_SEQUENCE has
\* ended and playback has begun.
C14_Witness ==
  /\ chalk /\ s_flash_interval_ms = FLASH_MS_CHALK
  /\ s_showing /\ ~ s_transitioning
  /\ s_seq_len = MAX_SEQUENCE
  /\ s_show_index = 0 /\ s_show_phase = 1
  /\ s_flash_phase = 0 /\ s_flash_timer = NULL

(* ---- C15 ---------------------------------------------------------------- *)

\* SELECT is pressed while the game is over.
Restart == s_game_over /\ PressSelect

\* C15: every step other than a restart leaves the length and the sequence
\* unchanged or appends exactly one step, the old steps untouched; the length
\* and the round number decrease only in a restart.
C15_AppendOnly ==
  /\ [][ ~ Restart
           => ( \/ /\ s_seq_len' = s_seq_len
                   /\ s_sequence' = s_sequence
                \/ /\ s_seq_len' = s_seq_len + 1
                   /\ Len(s_sequence') = s_seq_len + 1
                   /\ SubSeq(s_sequence', 1, s_seq_len) = s_sequence ) ]_vars
  /\ [][ (s_seq_len' < s_seq_len \/ s_round' < s_round) => Restart ]_vars

\* The step that makes the length MAX_SEQUENCE has just been appended.
C15_Witness ==
  /\ s_transitioning
  /\ s_seq_len = MAX_SEQUENCE
  /\ s_input_index = MAX_SEQUENCE - 1
  /\ vibes = << "short", "double", "long" >>

(* ---- C16 ---------------------------------------------------------------- *)

\* C16: when the transition timer is due, the flash animation has run all its
\* cycles and no flash timer is pending, on both builds and for every number
\* of cycles; the flash phase never exceeds the number of cycles.
C16_FlashCompletesFirst ==
  /\ \A t \in Pending("round_transition_callback") :
       t.rem = 0
       => ( /\ s_flash_phase = TransitionCycles(s_seq_len)
            /\ s_flash_timer = NULL
            /\ Pending("flash_animation_tick") = {} )
  /\ s_flash_phase <= TransitionCycles(s_seq_len)

(* ---- C17 ---------------------------------------------------------------- *)

\* C17: whenever input is accepted, s_input_index < s_seq_len, so the guard
\* "s_input_index >= s_seq_len" drops no press: every press made while input
\* is accepted is judged, and emits the pulse of a correct or a wrong press.
C17_GuardUnreachable ==
  /\ [](Accepting => s_input_index < s_seq_len)
  /\ [][ \A b \in Buttons :
           (Accepting /\ Press(b))
           => ( /\ vibes' # << >>
                /\ b \in glyphs'
                /\ s_feedback_timer' # NULL ) ]_vars

\* All but the last step of a round of MAX_SEQUENCE steps have been entered.
C17_Witness ==
  /\ Accepting
  /\ s_seq_len = MAX_SEQUENCE
  /\ s_input_index = MAX_SEQUENCE - 1
  /\ text = "Good"
  /\ vibes = << "short" >>

(* ---- C18 ---------------------------------------------------------------- *)

\* C18: a correct press with s_input_index + 1 < s_seq_len advances the input
\* cursor by one, emits one short pulse, shows "Good" and arms a 200 ms
\* acknowledgment timer, leaving the sequence, the length, the round number,
\* the show cursor and the three flags unchanged; the acknowledgment timer's
\* callback shows "Your turn" and changes no cursor, flag, length, round
\* number or sequence.
C18_CorrectPressFrame ==
  /\ [][ \A b \in Buttons :
           ( /\ Accepting
             /\ s_input_index + 1 < s_seq_len
             /\ b = s_sequence[s_input_index + 1]
             /\ Press(b) )
           => ( /\ s_input_index' = s_input_index + 1
                /\ vibes' = << "short" >>
                /\ text' = "Good"
                /\ UNCHANGED << s_sequence, s_seq_len, s_round, s_show_index,
                                s_showing, s_transitioning, s_game_over >>
                /\ \E t \in timers' \ timers :
                     t.cb = "clear_feedback_callback" /\ t.rem = GOOD_MS ) ]_vars
  /\ [][ ( /\ Fire
           /\ \E t \in Pending("clear_feedback_callback") :
                t.rem = 0 /\ t \notin timers' )
           => ( /\ text' = "Your turn"
                /\ UNCHANGED progress ) ]_vars

\* The acknowledgment timer of the last-but-one press of a round of
\* MAX_SEQUENCE steps has fired.
C18_Witness ==
  /\ Accepting
  /\ s_seq_len = MAX_SEQUENCE
  /\ s_input_index = MAX_SEQUENCE - 1
  /\ text = "Your turn"
  /\ Pending("clear_feedback_callback") = {}

(* ---- C19 ---------------------------------------------------------------- *)

\* C19: at most one of s_showing, s_transitioning and s_game_over is true,
\* and s_round = s_seq_len.
C19_OneStateFlag ==
  /\ ~ (s_showing /\ s_transitioning)
  /\ ~ (s_showing /\ s_game_over)
  /\ ~ (s_transitioning /\ s_game_over)
  /\ s_round = s_seq_len

\* A round transition is under way after the first round.
C19_Witness ==
  /\ s_transitioning /\ ~ s_showing /\ ~ s_game_over
  /\ s_seq_len = 2 /\ s_round = 2

(* ---- C20 ---------------------------------------------------------------- *)

\* C20: during playback the highlighted glyphs are exactly the glyph of the
\* displayed step in a Display phase, and none in a Pause phase.
C20_PlaybackCueUndisturbed ==
  s_showing
    => glyphs = ( IF s_show_phase = 1
                  THEN { s_sequence[s_show_index + 1] }
                  ELSE {} )

(* ---- C21 ---------------------------------------------------------------- *)

\* C21: whenever the message is "Your turn" the game awaits input: s_showing,
\* s_transitioning and s_game_over are all false, so that "Your turn" never
\* stands in place of a playback cue, the "Length N" banner, "Game Over" or
\* "You win!".
C21_MessageAgreesWithState ==
  text = "Your turn" => Accepting

====
